---- MODULE Spec2Model ----
(***************************************************************************)
(* Model of the cron job manager of glacier (scheduler/cron.go).           *)
(*                                                                         *)
(* schedulerImpl keeps a map  jobs : name -> *Job  behind an RWMutex and   *)
(* forwards registrations to a cron engine, cron.Cron.  Every registry     *)
(* method holds the mutex from its first to its last statement, so each    *)
(* method is one atomic action here.  Start and Stop take no lock and are  *)
(* modelled one statement per action.  A triggered run is two steps: the   *)
(* engine enters the registered closure (Trigger) and, when the closure    *)
(* got past the lock gate, the handler later returns or panics (Finish).   *)
(***************************************************************************)
EXTENDS Integers, Sequences, FiniteSets, Bags, TLC

VARIABLES
    jobs,                   \* schedulerImpl.jobs : map[string]*Job
    entries,                \* the engine's registrations (cron entries)
    next,                   \* the engine's entry ID counter
    distributeLockManager,  \* TRUE iff schedulerImpl.distributeLockManager != nil
    hasLock,                \* what DistributeLockManager.HasLock() reports
    phase,                  \* how far Start() / Stop() have got
    inflight,               \* bag of closures whose handler is executing
    crashed,                \* a panic escaped into the engine goroutine
    skipped,                \* some trigger has stopped at the lock gate
    mutex,                  \* schedulerImpl.lock : who holds the RWMutex
    thr,                    \* per caller: the registry call it is executing
    hooks,                  \* the handlers registered with hook.OnServerReady
    ready,                  \* the host has signalled that the server is ready
    last                    \* observation: the most recent call and what it did

vars == <<jobs, entries, next, distributeLockManager, hasLock, phase,
          inflight, crashed, skipped, mutex, thr, hooks, ready, last>>

----------------------------------------------------------------------------
(* Bounds of the model *)

\* the engine hands out entry IDs 1, 2, ...; registrations stop at MaxID
MaxID == 2
\* number of handler executions that may be in progress at the same time
MaxInflight == 1

Names == {"a", "b"}
Plans == {"@every 5s", "0 0 * * * *"}
Handlers == {"h1"}
\* the goroutines that call the registry
Threads == {"t1", "t2"}

----------------------------------------------------------------------------
(* Values *)

\* the zero closure (a nil func())
NoFn == [kind |-> "", name |-> "", h |-> ""]

\* Job{} : the zero value Info returns next to its not-found error
ZeroJob == [ID |-> 0, Name |-> "", Plan |-> "", handler |-> NoFn, Paused |-> FALSE]

\* the closure Start() registers every 60s
getDistributeLock == [kind |-> "getDistributeLock", name |-> "", h |-> ""]

LockPlan == "@every 60s"

\* the closure built by Add around the caller's handler: lock gate,
\* recover boundary, then the handler
jobHandler(name, handler) == [kind |-> "jobHandler", name |-> name, h |-> handler]

\* the caller's handler itself, without gate or recover boundary
rawHandler(name, handler) == [kind |-> "raw", name |-> name, h |-> handler]

\* schedulerImpl.lock with nobody holding it
Unlocked == [w |-> "", r |-> {}]

\* a caller that is not inside a registry method
Idle == [pc |-> "idle"]

\* one call made on the engine
CallAddFunc(plan, fn, id) == [call |-> "AddFunc", id |-> id, plan |-> plan, fn |-> fn]
CallRemove(id) == [call |-> "Remove", id |-> id, plan |-> "", fn |-> NoFn]

\* the observation record
Ev(op, name, err, calls) ==
    [op |-> op, name |-> name, err |-> err, calls |-> calls, job |-> ZeroJob,
     fn |-> NoFn, invoked |-> FALSE, outcome |-> ""]

----------------------------------------------------------------------------
(* The engine: cron.Cron as used through c.cr *)

\* c.cr.AddFunc(plan, fn): the parser's verdict is the engine's; on success
\* the counter is incremented and the new entry carries its value
AddFunc(es, nx, plan, fn, reject) ==
    IF reject
    THEN [entries |-> es, next |-> nx, id |-> 0, err |-> TRUE]
    ELSE [entries |-> es \cup {[id |-> nx + 1, plan |-> plan, fn |-> fn]},
          next |-> nx + 1, id |-> nx + 1, err |-> FALSE]

\* c.cr.Remove(id): drops the entry with that ID, if any
CronRemove(es, id) == {e \in es : e.id # id}

----------------------------------------------------------------------------
(* Initial state: NewManager *)

Init ==
    /\ jobs = [n \in {} |-> ZeroJob]
    /\ entries = {}
    /\ next = 0
    /\ distributeLockManager = FALSE
    /\ hasLock = FALSE
    /\ phase = "Created"
    /\ inflight = EmptyBag
    /\ crashed = FALSE
    /\ skipped = FALSE
    /\ mutex = Unlocked
    /\ thr = [t \in Threads |-> Idle]
    /\ hooks = EmptyBag
    /\ ready = FALSE
    /\ last = Ev("NewManager", "", "nil", <<>>)

----------------------------------------------------------------------------
(* The registry: Add, Remove, Pause, Continue, Info.  Each runs under      *)
(* c.lock from entry to return.                                            *)

\* c.jobs[name] = job
Put(js, name, job) ==
    [n \in DOMAIN js \cup {name} |-> IF n = name THEN job ELSE js[n]]

\* delete(c.jobs, name)
Delete(js, name) == [n \in DOMAIN js \ {name} |-> js[n]]

\* variant: a run ends with the registration of its closure
InFlightAfterCancelling(fl, es) ==
    [fn \in {f \in DOMAIN fl : \E e \in es : e.fn = f} |-> fl[fn]]

\* the runs in progress after a registry method returned: c.cr.Remove(id)
\* drops the entry, a closure the engine already called is not touched
InFlightAfter(fl, es) == fl

\* a registry method's effect: the map, the engine, and what the caller saw
Returns(js, es, nx, ev) ==
    /\ jobs' = js
    /\ entries' = es
    /\ next' = nx
    /\ last' = ev
    /\ inflight' = InFlightAfter(inflight, es)
    /\ UNCHANGED <<distributeLockManager, hasLock, phase, crashed,
                   skipped, mutex, thr, hooks, ready>>

\* variant: a paused record does not count as existing
AddExistedUnlessPaused(js, name) == name \in DOMAIN js /\ ~js[name].Paused

\* Add: _, existed := c.jobs[name]
AddExisted(js, name) == name \in DOMAIN js

\* Add: the record stored after a successful registration
NewJob(id, name, plan, fn) ==
    [ID |-> id, Name |-> name, Plan |-> plan, handler |-> fn, Paused |-> FALSE]

\* Add: the map after the engine rejected the registration
AddRejected(js, name, plan, fn) == js

\* what a call of the method, run alone on the map js and the engine
\* (es, nx), leaves behind and returns
Outcome(js, es, nx, ev) == [jobs |-> js, entries |-> es, next |-> nx, ev |-> ev]

AddResult(js, es, nx, name, plan, handler, reject) ==
    IF AddExisted(js, name)
    THEN Outcome(js, es, nx, Ev("Add", name, "AlreadyExists", <<>>))
    ELSE LET fn == jobHandler(name, handler)
             r == AddFunc(es, nx, plan, fn, reject)
         IN  IF r.err
             THEN Outcome(AddRejected(js, name, plan, fn), r.entries, r.next,
                          Ev("Add", name, "RegistrationFailed",
                             <<CallAddFunc(plan, fn, 0)>>))
             ELSE Outcome(Put(js, name, NewJob(r.id, name, plan, fn)),
                          r.entries, r.next,
                          Ev("Add", name, "nil", <<CallAddFunc(plan, fn, r.id)>>))

Add(name, plan, handler, reject) ==
    /\ (~AddExisted(jobs, name) /\ ~reject) => next < MaxID
    /\ \E r \in {AddResult(jobs, entries, next, name, plan, handler, reject)} :
       Returns(r.jobs, r.entries, r.next, r.ev)

\* variant: a missing name is reported as removed
RemoveNotFoundSilent(name) == Ev("Remove", name, "nil", <<>>)

\* Remove: the return for a name without record
RemoveNotFound(name) == Ev("Remove", name, "NotFound", <<>>)

\* variant: the engine entry is removed whether or not the job is paused
RemoveCallsAlways(reg) == <<CallRemove(reg.ID)>>

\* Remove: if !reg.Paused { c.cr.Remove(reg.ID) }
RemoveCalls(reg) == IF ~reg.Paused THEN <<CallRemove(reg.ID)>> ELSE <<>>

\* the engine after a sequence of Remove calls
RECURSIVE AfterRemoves(_, _)
AfterRemoves(es, calls) ==
    IF calls = <<>> THEN es
    ELSE AfterRemoves(CronRemove(es, Head(calls).id), Tail(calls))

RemoveResult(js, es, nx, name) ==
    IF name \notin DOMAIN js
    THEN Outcome(js, es, nx, RemoveNotFound(name))
    ELSE LET reg == js[name]
             calls == RemoveCalls(reg)
         IN  Outcome(Delete(js, name), AfterRemoves(es, calls), nx,
                     Ev("Remove", name, "nil", calls))

Remove(name) ==
    \E r \in {RemoveResult(jobs, entries, next, name)} :
    Returns(r.jobs, r.entries, r.next, r.ev)

\* Pause: the return for a name without record
PauseNotFound(name) == Ev("Pause", name, "NotFound", <<>>)

\* variant: no early return for a paused job
PauseAlreadyNever(reg) == FALSE

\* Pause: if reg.Paused { return nil }
PauseAlready(reg) == reg.Paused

\* variant: the engine entry is left registered
PauseCallsNone(reg) == <<>>

\* Pause: c.cr.Remove(reg.ID)
PauseCalls(reg) == <<CallRemove(reg.ID)>>

\* variant: the stored closure is dropped with the registration
PauseRegDropsHandler(reg) == [reg EXCEPT !.Paused = TRUE, !.handler = NoFn]

\* Pause: reg.Paused = true
PauseReg(reg) == [reg EXCEPT !.Paused = TRUE]

PauseResult(js, es, nx, name) ==
    IF name \notin DOMAIN js
    THEN Outcome(js, es, nx, PauseNotFound(name))
    ELSE LET reg == js[name] IN
         IF PauseAlready(reg)
         THEN Outcome(js, es, nx, Ev("Pause", name, "nil", <<>>))
         ELSE LET calls == PauseCalls(reg) IN
              Outcome(Put(js, name, PauseReg(reg)), AfterRemoves(es, calls),
                      nx, Ev("Pause", name, "nil", calls))

Pause(name) ==
    \E r \in {PauseResult(jobs, entries, next, name)} :
    Returns(r.jobs, r.entries, r.next, r.ev)

\* Continue: the return for a name without record
ContinueNotFound(name) == Ev("Continue", name, "NotFound", <<>>)

\* Continue: if !reg.Paused { return nil }
ContinueAlready(reg) == ~reg.Paused

\* variant: the handler is registered without its wrapper
ContinueHandlerRaw(reg) == rawHandler(reg.handler.name, reg.handler.h)

\* Continue: the arguments of c.cr.AddFunc(reg.Plan, reg.handler)
ContinuePlan(reg) == reg.Plan
ContinueHandler(reg) == reg.handler

\* variant: the flag is cleared before the engine's answer is looked at
ContinueRejectedUnpaused(reg) == [reg EXCEPT !.Paused = FALSE]

\* Continue: the record after the engine rejected the registration
ContinueRejected(reg) == reg

\* variant: the new entry ID is not stored
ContinueRegKeepsID(reg, id) == [reg EXCEPT !.Paused = FALSE]

\* Continue: reg.Paused = false; reg.ID = id
ContinueReg(reg, id) == [reg EXCEPT !.Paused = FALSE, !.ID = id]

ContinueResult(js, es, nx, name, reject) ==
    IF name \notin DOMAIN js
    THEN Outcome(js, es, nx, ContinueNotFound(name))
    ELSE LET reg == js[name] IN
         IF ContinueAlready(reg)
         THEN Outcome(js, es, nx, Ev("Continue", name, "nil", <<>>))
         ELSE LET plan == ContinuePlan(reg)
                  fn == ContinueHandler(reg)
                  r == AddFunc(es, nx, plan, fn, reject)
              IN  IF r.err
                  THEN Outcome(Put(js, name, ContinueRejected(reg)),
                               r.entries, r.next,
                               Ev("Continue", name, "RegistrationFailed",
                                  <<CallAddFunc(plan, fn, 0)>>))
                  ELSE Outcome(Put(js, name, ContinueReg(reg, r.id)),
                               r.entries, r.next,
                               Ev("Continue", name, "nil",
                                  <<CallAddFunc(plan, fn, r.id)>>))

\* whether the call reaches c.cr.AddFunc
ContinueRegisters(js, name) == name \in DOMAIN js /\ ~ContinueAlready(js[name])

Continue(name, reject) ==
    /\ (ContinueRegisters(jobs, name) /\ ~reject) => next < MaxID
    /\ \E r \in {ContinueResult(jobs, entries, next, name, reject)} :
       Returns(r.jobs, r.entries, r.next, r.ev)

\* Info: what the method returns, a copy of the record or Job{} and an error
InfoResult(js, name) ==
    IF name \in DOMAIN js
    THEN [job |-> js[name], err |-> "nil"]
    ELSE [job |-> ZeroJob, err |-> "NotFound"]

\* Info as the caller sees it
InfoEv(js, name) ==
    LET res == InfoResult(js, name) IN
    [Ev("Info", name, res.err, <<>>) EXCEPT !.job = res.job]

Info(name) == Returns(jobs, entries, next, InfoEv(jobs, name))

----------------------------------------------------------------------------
(* The registry methods statement by statement, called from several        *)
(* goroutines.  A caller takes c.lock, reads the map, calls the engine,     *)
(* writes the map and returns, which releases the lock.                    *)

Ops == {"Add", "Remove", "Pause", "Continue", "Info"}

\* variant: every method takes the read lock
LockModeShared(op) == "R"

\* c.lock.Lock() in Add, Remove, Pause and Continue, c.lock.RLock() in Info
LockMode(op) == IF op = "Info" THEN "R" ELSE "W"

\* sync.RWMutex: a writer excludes everybody, a reader excludes writers
CanLock(mx, mode) == IF mode = "W" THEN mx.w = "" /\ mx.r = {} ELSE mx.w = ""
Locked(mx, t, mode) ==
    IF mode = "W" THEN [mx EXCEPT !.w = t] ELSE [mx EXCEPT !.r = @ \cup {t}]
Released(mx, t) == [w |-> IF mx.w = t THEN "" ELSE mx.w, r |-> mx.r \ {t}]

\* an assignment through the pointer reg: it reaches the map's record as
\* long as the map still holds that record
Through(js, name, new) == IF name \in DOMAIN js THEN Put(js, name, new) ELSE js

\* the record the pointer reg of caller c designates
Target(js, c) == IF c.name \in DOMAIN js THEN js[c.name] ELSE c.reg

\* a step inside a method
Steps(t, js, es, nx, loc) ==
    /\ jobs' = js
    /\ entries' = es
    /\ next' = nx
    /\ thr' = [thr EXCEPT ![t] = loc]
    /\ UNCHANGED <<distributeLockManager, hasLock, phase, inflight, crashed,
                   skipped, mutex, hooks, ready, last>>

\* the return of a method: the deferred Unlock / RUnlock runs
ReturnsFrom(t, js, es, nx, ev) ==
    /\ jobs' = js
    /\ entries' = es
    /\ next' = nx
    /\ thr' = [thr EXCEPT ![t] = Idle]
    /\ mutex' = Released(mutex, t)
    /\ last' = ev
    /\ UNCHANGED <<distributeLockManager, hasLock, phase, inflight, crashed,
                   skipped, hooks, ready>>

\* a goroutine calls a method and its c.lock.Lock() / c.lock.RLock()
\* returns; until then the call has no effect
Acquire(t, op, name, plan, h) ==
    /\ thr[t].pc = "idle"
    /\ (op = "Add") = (plan \in Plans)
    /\ (op = "Add") = (h \in Handlers)
    /\ CanLock(mutex, LockMode(op))
    /\ mutex' = Locked(mutex, t, LockMode(op))
    /\ thr' = [thr EXCEPT ![t] =
                   [pc |-> "read", op |-> op, name |-> name, plan |-> plan, h |-> h,
                    reject |-> FALSE, reg |-> ZeroJob, id |-> 0, calls |-> <<>>,
                    snap |-> [jobs |-> jobs, entries |-> entries, next |-> next]]]
    /\ UNCHANGED <<jobs, entries, next, distributeLockManager, hasLock, phase,
                   inflight, crashed, skipped, hooks, ready, last>>

\* the lookup c.jobs[name] and the early returns
Read(t) ==
    LET c == thr[t]
        n == c.name
        found == [c EXCEPT !.reg = jobs[n], !.pc = "engine"]
    IN
    /\ c.pc = "read"
    /\ CASE c.op = "Add" ->
             IF AddExisted(jobs, n)
             THEN ReturnsFrom(t, jobs, entries, next, Ev("Add", n, "AlreadyExists", <<>>))
             ELSE Steps(t, jobs, entries, next, [c EXCEPT !.pc = "engine"])
         [] c.op = "Remove" ->
             IF n \notin DOMAIN jobs
             THEN ReturnsFrom(t, jobs, entries, next, RemoveNotFound(n))
             ELSE Steps(t, jobs, entries, next, [found EXCEPT !.pc = "write"])
         [] c.op = "Pause" ->
             IF n \notin DOMAIN jobs
             THEN ReturnsFrom(t, jobs, entries, next, PauseNotFound(n))
             ELSE IF PauseAlready(jobs[n])
             THEN ReturnsFrom(t, jobs, entries, next, Ev("Pause", n, "nil", <<>>))
             ELSE Steps(t, jobs, entries, next, found)
         [] c.op = "Continue" ->
             IF n \notin DOMAIN jobs
             THEN ReturnsFrom(t, jobs, entries, next, ContinueNotFound(n))
             ELSE IF ContinueAlready(jobs[n])
             THEN ReturnsFrom(t, jobs, entries, next, Ev("Continue", n, "nil", <<>>))
             ELSE Steps(t, jobs, entries, next, found)
         [] c.op = "Info" ->
             ReturnsFrom(t, jobs, entries, next, InfoEv(jobs, n))

\* the call on the engine: c.cr.AddFunc, which the engine may reject, or
\* c.cr.Remove
Engine(t, reject) ==
    LET c == [thr[t] EXCEPT !.reject = reject]
        n == c.name
    IN
    /\ c.pc = "engine"
    /\ reject => c.op \in {"Add", "Continue"}
    /\ CASE c.op = "Add" ->
             LET fn == jobHandler(n, c.h)
                 r == AddFunc(entries, next, c.plan, fn, c.reject)
             IN  /\ ~c.reject => next < MaxID
                 /\ IF r.err
                    THEN ReturnsFrom(t, AddRejected(jobs, n, c.plan, fn), r.entries,
                                     r.next, Ev("Add", n, "RegistrationFailed",
                                                <<CallAddFunc(c.plan, fn, 0)>>))
                    ELSE Steps(t, jobs, r.entries, r.next,
                               [c EXCEPT !.id = r.id, !.pc = "write",
                                         !.calls = <<CallAddFunc(c.plan, fn, r.id)>>])
         [] c.op = "Remove" ->
             LET calls == RemoveCalls(c.reg) IN
             ReturnsFrom(t, jobs, AfterRemoves(entries, calls), next,
                         Ev("Remove", n, "nil", calls))
         [] c.op = "Pause" ->
             LET calls == PauseCalls(c.reg) IN
             Steps(t, jobs, AfterRemoves(entries, calls), next,
                   [c EXCEPT !.calls = calls, !.pc = "write"])
         [] c.op = "Continue" ->
             LET plan == ContinuePlan(c.reg)
                 fn == ContinueHandler(c.reg)
                 r == AddFunc(entries, next, plan, fn, c.reject)
             IN  /\ ~c.reject => next < MaxID
                 /\ IF r.err
                    THEN ReturnsFrom(t, Through(jobs, n, ContinueRejected(Target(jobs, c))),
                                     r.entries, r.next,
                                     Ev("Continue", n, "RegistrationFailed",
                                        <<CallAddFunc(plan, fn, 0)>>))
                    ELSE Steps(t, jobs, r.entries, r.next,
                               [c EXCEPT !.id = r.id, !.pc = "write",
                                         !.calls = <<CallAddFunc(plan, fn, r.id)>>])

\* the assignment to the map or to the record
Write(t) ==
    LET c == thr[t]
        n == c.name
    IN
    /\ c.pc = "write"
    /\ CASE c.op = "Add" ->
             ReturnsFrom(t, Put(jobs, n, NewJob(c.id, n, c.plan, jobHandler(n, c.h))),
                         entries, next, Ev("Add", n, "nil", c.calls))
         [] c.op = "Remove" ->
             Steps(t, Delete(jobs, n), entries, next, [c EXCEPT !.pc = "engine"])
         [] c.op = "Pause" ->
             ReturnsFrom(t, Through(jobs, n, PauseReg(Target(jobs, c))), entries, next,
                         Ev("Pause", n, "nil", c.calls))
         [] c.op = "Continue" ->
             ReturnsFrom(t, Through(jobs, n, ContinueReg(Target(jobs, c), c.id)),
                         entries, next, Ev("Continue", n, "nil", c.calls))

\* what the call of caller c returns and leaves behind when it runs alone
\* on the registry it found when it got the lock
Alone(c) ==
    LET js == c.snap.jobs
        es == c.snap.entries
        nx == c.snap.next
    IN  CASE c.op = "Add" -> AddResult(js, es, nx, c.name, c.plan, c.h, c.reject)
          [] c.op = "Remove" -> RemoveResult(js, es, nx, c.name)
          [] c.op = "Pause" -> PauseResult(js, es, nx, c.name)
          [] c.op = "Continue" -> ContinueResult(js, es, nx, c.name, c.reject)
          [] c.op = "Info" -> Outcome(js, es, nx, InfoEv(js, c.name))

----------------------------------------------------------------------------
(* The lock manager, an interface the host implements *)

\* DistributeLockManager.TryLock(): on success the lock is held
TryLock(has, ok) == IF ok THEN TRUE ELSE has

\* DistributeLockManager.TryUnLock(): on success the lock is released
TryUnLock(has, ok) == IF ok THEN FALSE ELSE has

LockErr(op, ok) == IF ok THEN "nil" ELSE op

\* everything but the lock manager's state, the lifecycle and the observation
Lifecycle(has, ph, ev) ==
    /\ hasLock' = has
    /\ phase' = ph
    /\ last' = ev
    /\ UNCHANGED <<jobs, distributeLockManager, inflight, crashed, skipped,
                   mutex, thr, hooks, ready>>

\* the setter, called by the host before Start()
DistributeLockManager ==
    /\ phase = "Created"
    /\ ~distributeLockManager
    /\ distributeLockManager' = TRUE
    /\ last' = Ev("DistributeLockManager", "", "nil", <<>>)
    /\ UNCHANGED <<jobs, entries, next, hasLock, phase, inflight, crashed,
                   skipped, mutex, thr, hooks, ready>>

\* the lease runs out, or another instance takes the lock over
LockExpire ==
    /\ distributeLockManager
    /\ hasLock
    /\ UNCHANGED <<entries, next>>
    /\ Lifecycle(FALSE, phase, Ev("LockExpire", "", "nil", <<>>))

----------------------------------------------------------------------------
(* Start() and Stop(), one statement per action *)

\* Start: getDistributeLock(), the immediate attempt
StartTryLock(ok) ==
    /\ phase = "Created"
    /\ distributeLockManager
    /\ UNCHANGED <<entries, next>>
    /\ Lifecycle(TryLock(hasLock, ok), "TryLocked",
                 Ev("StartTryLock", "", LockErr("TryLock", ok), <<>>))

\* Start: c.cr.AddFunc("@every 60s", getDistributeLock); an error is logged
StartAddFunc(reject) ==
    /\ phase = "TryLocked"
    /\ ~reject => next < MaxID
    /\ LET r == AddFunc(entries, next, LockPlan, getDistributeLock, reject) IN
       /\ entries' = r.entries
       /\ next' = r.next
       /\ Lifecycle(hasLock, "LockJobAdded",
                    Ev("StartAddFunc", "", IF r.err THEN "RegistrationFailed" ELSE "nil",
                       <<CallAddFunc(LockPlan, getDistributeLock, r.id)>>))

\* variant: the engine is started before the lock is tried
StartReachedEarly(ph, dlm) == ph \in {"Created", "LockJobAdded"}

\* Start: control is at c.cr.Start(), after the block of
\* if c.distributeLockManager != nil, or at once when the condition is false
StartReached(ph, dlm) == ph = "LockJobAdded" \/ (ph = "Created" /\ ~dlm)

\* Start: c.cr.Start()
StartEngine ==
    /\ StartReached(phase, distributeLockManager)
    /\ UNCHANGED <<entries, next>>
    /\ Lifecycle(hasLock, "Started", Ev("StartEngine", "", "nil", <<>>))

\* Stop: c.cr.Stop()
StopEngine ==
    /\ phase = "Started"
    /\ UNCHANGED <<entries, next>>
    /\ Lifecycle(hasLock, "EngineStopped", Ev("StopEngine", "", "nil", <<>>))

\* Stop: if c.distributeLockManager != nil { TryUnLock() }, then return
StopUnLock(ok) ==
    /\ phase = "EngineStopped"
    /\ UNCHANGED <<entries, next>>
    /\ IF distributeLockManager
       THEN Lifecycle(TryUnLock(hasLock, ok), "Stopped",
                      Ev("StopUnLock", "", LockErr("TryUnLock", ok), <<>>))
       ELSE Lifecycle(hasLock, "Stopped", Ev("StopReturn", "", "nil", <<>>))

----------------------------------------------------------------------------
(* A triggered run *)

\* variant: the closure never consults the lock manager
LockGateOpen(dlm, has) == FALSE

\* jobHandler: c.distributeLockManager != nil && !c.distributeLockManager.HasLock()
LockGate(dlm, has) == dlm /\ ~has

\* variant: getDistributeLock waits for the lock as well
SkipsUnlessLocked(fn, dlm, has) == LockGate(dlm, has)

\* whether the closure returns before it does its work: jobHandler has the
\* lock gate, getDistributeLock and a raw handler have none
Skips(fn, dlm, has) == fn.kind = "jobHandler" /\ LockGate(dlm, has)

\* variant: no recover boundary
RecoversNever(fn) == FALSE

\* jobHandler: defer func() { if err := recover(); ... }()
Recovers(fn) == fn.kind = "jobHandler"

\* whether the handler's outcome leaves the closure as a panic
Escapes(fn, outcome) == outcome = "panic" /\ ~Recovers(fn)

Outcomes == {"ok", "error", "panic"}

\* variant: the closure runs with the registry's lock held
RunLockHeld(mx, fn) == IF fn.kind = "jobHandler" THEN [mx EXCEPT !.w = "run"] ELSE mx

\* schedulerImpl.lock after the engine entered a closure: neither jobHandler
\* nor getDistributeLock touches c.lock
RunLock(mx, fn) == mx

\* the engine, while it runs, calls the closure of one of its entries
Trigger(e, ok) ==
    /\ phase = "Started"
    /\ e \in entries
    /\ UNCHANGED <<jobs, entries, next, distributeLockManager, phase, crashed,
                   thr, hooks, ready>>
    /\ mutex' = RunLock(mutex, e.fn)
    /\ IF Skips(e.fn, distributeLockManager, hasLock)
       THEN /\ ok
            /\ hasLock' = hasLock
            /\ inflight' = inflight
            /\ skipped' = TRUE
            /\ last' = [Ev("Trigger", e.fn.name, "nil", <<>>) EXCEPT !.fn = e.fn]
       ELSE IF e.fn.kind = "getDistributeLock"
       THEN /\ hasLock' = TryLock(hasLock, ok)
            /\ inflight' = inflight
            /\ skipped' = skipped
            /\ last' = [Ev("Trigger", "", LockErr("TryLock", ok), <<>>)
                          EXCEPT !.fn = e.fn]
       ELSE /\ ok
            /\ hasLock' = hasLock
            /\ BagCardinality(inflight) < MaxInflight
            /\ inflight' = inflight (+) SetToBag({e.fn})
            /\ skipped' = skipped
            /\ last' = [Ev("Trigger", e.fn.name, "nil", <<>>)
                          EXCEPT !.fn = e.fn, !.invoked = TRUE]

\* variant: a handler that returned an error is called again
FinishedRetrying(fl, fn, outcome) ==
    IF outcome = "error" /\ fn.kind = "jobHandler" THEN fl ELSE fl (-) SetToBag({fn})

\* jobHandler after hh.Handle came back: an error is logged, a panic is
\* recovered and logged, and the closure returns
Finished(fl, fn, outcome) == fl (-) SetToBag({fn})

\* the handler of a run in progress returns, returns an error, or panics
Finish(fn, outcome) ==
    /\ BagIn(fn, inflight)
    /\ inflight' = Finished(inflight, fn, outcome)
    /\ crashed' = Escapes(fn, outcome)
    /\ last' = [Ev("Finish", fn.name, "nil", <<>>)
                  EXCEPT !.fn = fn, !.outcome = outcome]
    /\ UNCHANGED <<jobs, entries, next, distributeLockManager, hasLock, phase,
                   skipped, mutex, thr, hooks, ready>>

----------------------------------------------------------------------------
(* AddAndRunOnServerReady and the host's readiness signal *)

\* variant: the hook is installed whatever Add returned
ReadyInstallsAlways(err) == TRUE

\* AddAndRunOnServerReady: if err := c.Add(...); err != nil { return err }
ReadyInstalls(err) == err = "nil"

\* variant: the closure registered with the engine is handed to the hook
ReadyHandlerWrapped(name, handler) == jobHandler(name, handler)

\* AddAndRunOnServerReady: what is passed to hook.OnServerReady, the
\* caller's handler or its Handle method
ReadyHandler(name, handler) == rawHandler(name, handler)

\* variant: the job is taken back when the hook cannot be installed
ResolveFailedRollsBack(r, js, es) ==
    [r EXCEPT !.jobs = js, !.entries = es, !.ev.err = "ResolveFailed"]

\* AddAndRunOnServerReady: return c.resolver.Resolve(...) with an error;
\* what Add did stays
ResolveFailed(r, js, es) == [r EXCEPT !.ev.err = "ResolveFailed"]

\* ok: whether c.resolver.Resolve finds the hook and hands the handler over
AddAndRunOnServerReady(name, plan, handler, reject, ok) ==
    /\ (~AddExisted(jobs, name) /\ ~reject) => next < MaxID
    /\ \E r \in {AddResult(jobs, entries, next, name, plan, handler, reject)} :
       \E q \in {IF ReadyInstalls(r.ev.err) /\ ~ok
                  THEN ResolveFailed(r, jobs, entries) ELSE r} :
           /\ jobs' = q.jobs
           /\ entries' = q.entries
           /\ next' = q.next
           /\ last' = [q.ev EXCEPT !.op = "AddAndRunOnServerReady"]
           /\ hooks' = IF ReadyInstalls(r.ev.err) /\ ok
                       THEN hooks (+) SetToBag({ReadyHandler(name, handler)})
                       ELSE hooks
    /\ UNCHANGED <<distributeLockManager, hasLock, phase, inflight, crashed,
                   skipped, mutex, thr, ready>>

\* the host signals readiness, once: every closure handed to the hook so far
\* is called; a closure with a lock gate returns at once when the gate is shut
ServerReady ==
    /\ ~ready
    /\ ready' = TRUE
    /\ hooks' = EmptyBag
    /\ LET gone == {fn \in BagToSet(hooks) : Skips(fn, distributeLockManager, hasLock)} IN
       /\ inflight' = inflight (+) [fn \in BagToSet(hooks) \ gone |-> hooks[fn]]
       /\ skipped' = (skipped \/ gone # {})
       /\ last' = [Ev("ServerReady", "", "nil", <<>>)
                     EXCEPT !.invoked = (BagToSet(hooks) # gone)]
    /\ UNCHANGED <<jobs, entries, next, distributeLockManager, hasLock, phase,
                   crashed, mutex, thr>>

----------------------------------------------------------------------------
(* The specification *)

Next ==
    /\ ~crashed
    /\ \/ \E name \in Names, plan \in Plans, handler \in Handlers, reject \in BOOLEAN :
              Add(name, plan, handler, reject)
       \/ \E name \in Names : Remove(name)
       \/ \E name \in Names : Pause(name)
       \/ \E name \in Names, reject \in BOOLEAN : Continue(name, reject)
       \/ \E name \in Names : Info(name)
       \/ DistributeLockManager
       \/ LockExpire
       \/ \E ok \in BOOLEAN : StartTryLock(ok)
       \/ \E reject \in BOOLEAN : StartAddFunc(reject)
       \/ StartEngine
       \/ StopEngine
       \/ \E ok \in BOOLEAN : StopUnLock(ok)
       \/ \E e \in entries, ok \in BOOLEAN : Trigger(e, ok)
       \/ \E fn \in BagToSet(inflight), outcome \in Outcomes : Finish(fn, outcome)

Spec == Init /\ [][Next]_vars

\* the registry called from several goroutines at once
NextConc ==
    \/ \E t \in Threads, op \in Ops, name \in Names, plan \in Plans \cup {""},
          h \in Handlers \cup {""} :
           Acquire(t, op, name, plan, h)
    \/ \E t \in Threads : Read(t)
    \/ \E t \in Threads, reject \in BOOLEAN : Engine(t, reject)
    \/ \E t \in Threads : Write(t)

SpecConc == Init /\ [][NextConc]_vars

\* the same callers while the engine dispatches triggers
NextRun ==
    \/ NextConc
    \/ StartEngine
    \/ \E e \in entries : Trigger(e, TRUE)
    \/ \E fn \in BagToSet(inflight), outcome \in Outcomes : Finish(fn, outcome)

SpecRun == Init /\ [][NextRun]_vars

\* jobs added with AddAndRunOnServerReady, from construction over the
\* readiness signal to the running engine
NextReady ==
    /\ ~crashed
    /\ \/ \E name \in Names, handler \in Handlers, reject \in BOOLEAN, ok \in BOOLEAN :
              AddAndRunOnServerReady(name, "@every 5s", handler, reject, ok)
       \/ \E name \in Names : Remove(name)
       \/ \E name \in Names : Pause(name)
       \/ DistributeLockManager
       \/ StartEngine
       \/ ServerReady
       \/ \E e \in entries : Trigger(e, TRUE)
       \/ \E fn \in BagToSet(inflight), outcome \in Outcomes : Finish(fn, outcome)

SpecReady == Init /\ [][NextReady]_vars

\* a scheduler with a lock manager whose engine, once started, keeps running
NextLive ==
    \/ \E name \in Names, handler \in Handlers : Add(name, "@every 5s", handler, FALSE)
    \/ DistributeLockManager
    \/ \E ok \in BOOLEAN : StartTryLock(ok)
    \/ \E reject \in BOOLEAN : StartAddFunc(reject)
    \/ StartEngine
    \/ \E e \in entries, ok \in BOOLEAN : Trigger(e, ok)
    \/ \E fn \in BagToSet(inflight), outcome \in Outcomes : Finish(fn, outcome)

\* the engine triggers the lock job every 60s for as long as it runs, and
\* TryLock can succeed; the engine fires the timer of every entry on its own
\* plan, whatever the other entries do, so a job whose run is held back only
\* now and then (here by the bound on runs in progress) does run: strong
\* fairness; a handler that was called returns
TriggersLock == \E e \in entries : e.fn = getDistributeLock /\ Trigger(e, TRUE)
TriggersJob(name) ==
    \E e \in entries : e.fn.kind = "jobHandler" /\ e.fn.name = name /\ Trigger(e, TRUE)
Returning == \E fn \in BagToSet(inflight), outcome \in Outcomes : Finish(fn, outcome)

SpecLive ==
    /\ Init /\ [][NextLive]_vars
    /\ WF_vars(TriggersLock)
    /\ \A name \in Names : SF_vars(TriggersJob(name) /\ last'.invoked)
    /\ WF_vars(Returning)

----------------------------------------------------------------------------
(* Properties *)

\* the step is a call of the registry method op
Called(op) == last'.op = op

\* the step changed neither the map nor the engine
RegistryUnchanged == jobs' = jobs /\ entries' = entries /\ next' = next

\* the step made exactly one engine call, AddFunc, and the engine accepted it
Accepted == Len(last'.calls) = 1 /\ last'.calls[1].call = "AddFunc" /\ last'.calls[1].id # 0

\* C1: name uniqueness.  Add on a name that has a record, active or paused,
\* returns AlreadyExists, calls nothing on the engine and changes neither the
\* map nor the engine; Add on a free name succeeds exactly when the engine
\* accepts the plan, whatever other names are registered, and touches no
\* other record.
C1_AddStep ==
    Called("Add") =>
        LET n == last'.name IN
        IF n \in DOMAIN jobs
        THEN /\ last'.err = "AlreadyExists"
             /\ last'.calls = <<>>
             /\ RegistryUnchanged
        ELSE /\ last'.err = IF Accepted THEN "nil" ELSE "RegistrationFailed"
             /\ (last'.err = "nil") = (n \in DOMAIN jobs')
             /\ \A m \in DOMAIN jobs : m \in DOMAIN jobs' /\ jobs'[m] = jobs[m]
C1_NameUniqueness == [][C1_AddStep]_vars

\* C1 witness: a second Add on a paused name was refused while another
\* name is registered too
C1_Witness ==
    /\ last.op = "Add"
    /\ last.err = "AlreadyExists"
    /\ last.name \in DOMAIN jobs
    /\ jobs[last.name].Paused
    /\ DOMAIN jobs = Names

\* the record's handle designates one of the engine's registrations
Live(reg) == \E e \in entries : e.id = reg.ID

\* C2 as stated: a record carries an engine handle exactly while it is not
\* paused, in the map and in the copy Info returns (the zero ID is "no handle")
C2_HandlePresentIffActive ==
    /\ \A n \in DOMAIN jobs : (jobs[n].ID # 0) <=> ~jobs[n].Paused
    /\ (last.op = "Info" /\ last.err = "nil") => ((last.job.ID # 0) <=> ~last.job.Paused)

\* C2 amended: a record's handle designates a live engine registration exactly
\* while the record is not paused; the ID field itself is never cleared, a
\* paused record (and its Info copy) keeps the ID of the removed registration
C2_HandleLiveIffActive ==
    /\ \A n \in DOMAIN jobs : jobs[n].ID # 0 /\ (Live(jobs[n]) <=> ~jobs[n].Paused)
    /\ (last.op = "Info" /\ last.err = "nil") =>
           (last.job.ID # 0 /\ (Live(last.job) <=> ~last.job.Paused))

\* C2 witness: Info returned a paused record, which still carries an ID
C2_Witness ==
    /\ last.op = "Info"
    /\ last.err = "nil"
    /\ last.job.Paused
    /\ last.job.ID # 0
    /\ ~Live(last.job)

\* C3: Pause on an active job removes its engine registration with one Remove
\* call on the record's ID, so that no entry carries the job's closure any
\* more, and keeps the record: Info afterwards returns it with Paused set and
\* name, plan and closure as before.
C3_PauseStep ==
    Called("Pause") =>
        LET n == last'.name IN
        (n \in DOMAIN jobs /\ ~jobs[n].Paused) =>
            /\ last'.err = "nil"
            /\ last'.calls = <<CallRemove(jobs[n].ID)>>
            /\ entries' = {e \in entries : e.id # jobs[n].ID}
            /\ entries' # entries
            /\ \A e \in entries' : e.fn # jobs[n].handler
            /\ InfoResult(jobs', n) =
                   [job |-> [jobs[n] EXCEPT !.Paused = TRUE], err |-> "nil"]
            /\ jobs'[n].Name = n
            /\ jobs'[n].handler.kind = "jobHandler"
            /\ \A m \in DOMAIN jobs \ {n} : m \in DOMAIN jobs' /\ jobs'[m] = jobs[m]
C3_PauseActive == [][C3_PauseStep]_vars

\* C3 witness: Pause has just unregistered an active job
C3_Witness ==
    /\ last.op = "Pause"
    /\ last.err = "nil"
    /\ last.calls # <<>>
    /\ last.name \in DOMAIN jobs
    /\ jobs[last.name].Paused

\* C4: Continue on a paused job makes one AddFunc call with the record's plan
\* and closure, which is the wrapper Add built for that name; when the engine
\* accepts, the new entry is the only change of the engine and the record
\* takes the new ID and Paused = false, plan and closure unchanged.
C4_ContinueStep ==
    Called("Continue") =>
        LET n == last'.name IN
        (n \in DOMAIN jobs /\ jobs[n].Paused) =>
            /\ Len(last'.calls) = 1
            /\ last'.calls[1].call = "AddFunc"
            /\ last'.calls[1].plan = jobs[n].Plan
            /\ last'.calls[1].fn = jobs[n].handler
            /\ last'.calls[1].fn \in {jobHandler(n, h) : h \in Handlers}
            /\ last'.err = IF Accepted THEN "nil" ELSE "RegistrationFailed"
            /\ Accepted =>
                 /\ last'.calls[1].id = next + 1
                 /\ entries' = entries \cup {[id |-> next + 1, plan |-> jobs[n].Plan,
                                              fn |-> jobs[n].handler]}
                 /\ entries' # entries
                 /\ jobs' = [jobs EXCEPT ![n] = [jobs[n] EXCEPT !.ID = next + 1,
                                                                 !.Paused = FALSE]]
C4_ContinuePaused == [][C4_ContinueStep]_vars

\* C4 witness: Continue has just re-registered a paused job
C4_Witness ==
    /\ last.op = "Continue"
    /\ last.err = "nil"
    /\ last.calls # <<>>
    /\ last.name \in DOMAIN jobs
    /\ ~jobs[last.name].Paused
    /\ jobs[last.name].ID = last.calls[1].id

\* C5: Pause on a paused job and Continue on a job that is not paused return
\* nil, call nothing on the engine and change neither the map nor the engine.
C5_NoOpStep ==
    (Called("Pause") \/ Called("Continue")) =>
        LET n == last'.name IN
        (n \in DOMAIN jobs /\ jobs[n].Paused = Called("Pause")) =>
            /\ last'.err = "nil"
            /\ last'.calls = <<>>
            /\ RegistryUnchanged
C5_Idempotent == [][C5_NoOpStep]_vars

\* C5 witness: Pause was called on a job that was already paused
C5_Witness ==
    /\ last.op = "Pause"
    /\ last.err = "nil"
    /\ last.calls = <<>>
    /\ last.name \in DOMAIN jobs
    /\ jobs[last.name].Paused

\* C6: Remove on an existing job deletes the record, so that Info reports
\* NotFound and Add finds the name free; the engine sees exactly one Remove
\* call, with the record's ID, when the job was active and no call when it
\* was paused; nothing else changes.
C6_RemoveStep ==
    Called("Remove") =>
        LET n == last'.name IN
        n \in DOMAIN jobs =>
            /\ last'.err = "nil"
            /\ jobs' = [m \in DOMAIN jobs \ {n} |-> jobs[m]]
            /\ InfoResult(jobs', n).err = "NotFound"
            /\ ~AddExisted(jobs', n)
            /\ next' = next
            /\ IF jobs[n].Paused
               THEN last'.calls = <<>> /\ entries' = entries
               ELSE /\ last'.calls = <<CallRemove(jobs[n].ID)>>
                    /\ entries' = {e \in entries : e.id # jobs[n].ID}
                    /\ entries' # entries
C6_RemoveExisting == [][C6_RemoveStep]_vars

\* C6 witness: a paused job was removed without any engine call while the
\* engine holds another registration
C6_Witness ==
    /\ last.op = "Remove"
    /\ last.err = "nil"
    /\ last.calls = <<>>
    /\ entries # {}

\* C7: Remove, Pause, Continue and Info on a name without record return
\* NotFound, call nothing on the engine and change neither map nor engine.
C7_MissingStep ==
    (Called("Remove") \/ Called("Pause") \/ Called("Continue") \/ Called("Info")) =>
        (last'.name \notin DOMAIN jobs =>
            /\ last'.err = "NotFound"
            /\ last'.calls = <<>>
            /\ last'.job = ZeroJob
            /\ RegistryUnchanged)
C7_NotFound == [][C7_MissingStep]_vars

\* C7 witness: Remove was refused for a missing name while another job exists
C7_Witness ==
    /\ last.op = "Remove"
    /\ last.err = "NotFound"
    /\ DOMAIN jobs # {}

\* C8: when the engine rejects the registration, Add and Continue return
\* RegistrationFailed and change neither the map nor the engine: after Add
\* the name has no record, after Continue the record is still paused with
\* its plan and closure.
C8_RejectedStep ==
    ((Called("Add") \/ Called("Continue")) /\ last'.calls # <<>> /\ ~Accepted) =>
        /\ last'.err = "RegistrationFailed"
        /\ RegistryUnchanged
        /\ Called("Add") => last'.name \notin DOMAIN jobs' /\ ~AddExisted(jobs', last'.name)
        /\ Called("Continue") => jobs'[last'.name].Paused
C8_RegistrationFailed == [][C8_RejectedStep]_vars

\* C8 witness: a rejected Continue left the job paused
C8_Witness ==
    /\ last.op = "Continue"
    /\ last.err = "RegistrationFailed"
    /\ jobs[last.name].Paused
    /\ ~Live(jobs[last.name])

\* C9: a trigger of a job's closure calls the handler unless a lock manager
\* is configured and reports HasLock() = false at that moment; a skipped
\* trigger starts no run.
C9_TriggerStep ==
    (Called("Trigger") /\ last'.fn.kind = "jobHandler") =>
        /\ last'.invoked = ~(distributeLockManager /\ ~hasLock)
        /\ inflight' = IF last'.invoked THEN inflight (+) SetToBag({last'.fn})
                       ELSE inflight
C9_LockGating == [][C9_TriggerStep]_vars

\* C9 witness: with a lock manager configured, a trigger called the handler
\* after an earlier trigger had been skipped for want of the lock
C9_Witness ==
    /\ last.op = "Trigger"
    /\ last.fn.kind = "jobHandler"
    /\ last.invoked
    /\ distributeLockManager
    /\ skipped

\* C10: a panic of a handler stays inside the closure: it never reaches the
\* engine, and the step changes nothing but the set of runs in progress: the
\* map, the engine's entries and counter, the lifecycle and the lock state
\* are as before, so that every entry can be triggered afterwards as it
\* could before.
C10_FaultStep ==
    /\ ~crashed'
    /\ (Called("Finish") /\ last'.outcome = "panic") =>
           /\ RegistryUnchanged
           /\ phase' = phase
           /\ hasLock' = hasLock
           /\ distributeLockManager' = distributeLockManager
           /\ inflight' = inflight (-) SetToBag({last'.fn})
C10_FaultIsolation == [][C10_FaultStep]_vars

\* C10 witness: a handler has just panicked in a triggered run while the
\* engine runs with the job's entry still registered
C10_Witness ==
    /\ last.op = "Finish"
    /\ last.outcome = "panic"
    /\ last.fn.kind = "jobHandler"
    /\ ~crashed
    /\ phase = "Started"
    /\ \E e \in entries : e.fn = last.fn

\* the engine's entries that run a job's closure are exactly the records
\* that are not paused, each under the record's ID, plan and closure
Registered(js) ==
    {[id |-> js[n].ID, plan |-> js[n].Plan, fn |-> js[n].handler] :
         n \in {m \in DOMAIN js : ~js[m].Paused}}
JobEntries(es) == {e \in es : e.fn.kind # "getDistributeLock"}

\* C11: registry calls made from several goroutines are linearizable in the
\* order in which they get c.lock: what a call returns and the map and
\* engine it leaves behind are those of the same call run alone on the
\* registry it found when it got the lock, and whenever nobody writes, the
\* engine holds exactly one entry per record that is not paused (no record
\* lost or doubled, no entry without record).
C11_ReturnStep ==
    /\ \A t \in Threads :
           (thr[t].pc # "idle" /\ thr'[t].pc = "idle") =>
               LET r == Alone([thr[t] EXCEPT !.reject = (last'.err = "RegistrationFailed")]) IN
               /\ jobs' = r.jobs
               /\ entries' = r.entries
               /\ next' = r.next
               /\ last' = r.ev
    /\ mutex'.w = "" =>
           /\ JobEntries(entries') = Registered(jobs')
           /\ \A n \in DOMAIN jobs' : jobs'[n].Name = n
C11_Linearizable == [][C11_ReturnStep]_vars

\* C11 witness: with two records in the map, an Info call has returned a
\* paused record while the other caller is inside Info under the read lock
C11_Witness ==
    /\ last.op = "Info"
    /\ last.err = "nil"
    /\ last.job.Paused
    /\ \E t \in Threads : thr[t].pc = "read" /\ thr[t].op = "Info" /\ t \in mutex.r
    /\ Cardinality(DOMAIN jobs) = 2

\* C16: handlers run outside the registry lock.  While a handler is in
\* progress the lock is held by a registry call or by nobody, so a caller
\* finds it free as soon as no other caller is inside a method: every
\* method on every name, the running job's included, can then take the lock,
\* and a call that has the lock is never held up by the run.
C16_LockFreeOfRuns ==
    inflight # EmptyBag =>
        /\ mutex.w \in Threads \cup {""}
        /\ (\A t \in Threads : thr[t].pc = "idle") =>
               \A t \in Threads, name \in Names :
                   /\ ENABLED Acquire(t, "Add", name, "@every 5s", "h1")
                   /\ \A op \in Ops \ {"Add"} : ENABLED Acquire(t, op, name, "", "")
        /\ \A t \in Threads :
               /\ thr[t].pc \in {"read", "write"} => ENABLED (Read(t) \/ Write(t))
               /\ thr[t].pc = "engine" => ENABLED Engine(t, thr[t].op \in {"Add", "Continue"})

\* C16 witness: Pause on the running job's own name has returned while the
\* handler of that job is still in progress
C16_Witness ==
    /\ last.op = "Pause"
    /\ last.err = "nil"
    /\ last.calls # <<>>
    /\ \E fn \in BagToSet(inflight) : fn.name = last.name
    /\ mutex = Unlocked

\* C12: lifecycle ordering.  With a lock manager set, Start calls TryLock
\* once, then registers the lock job, and only then starts the engine; a
\* trigger is dispatched only while the engine runs, so none comes before the
\* first attempt and none after Stop stopped the engine; Stop calls TryUnLock
\* only after the engine stopped; without a lock manager neither TryLock nor
\* TryUnLock is called and no lock job is registered.
C12_LifecycleStep ==
    /\ Called("Trigger") => phase = "Started"
    /\ Called("StartEngine") =>
           /\ phase' = "Started"
           /\ distributeLockManager => phase = "LockJobAdded"
           /\ ~distributeLockManager => phase = "Created"
    /\ Called("StartAddFunc") =>
           /\ phase = "TryLocked" /\ phase' = "LockJobAdded"
           /\ distributeLockManager
           /\ last'.calls = <<CallAddFunc(LockPlan, getDistributeLock, last'.calls[1].id)>>
    /\ Called("StartTryLock") =>
           /\ phase = "Created" /\ phase' = "TryLocked"
           /\ distributeLockManager
    /\ Called("StopEngine") => phase = "Started" /\ phase' = "EngineStopped"
    /\ Called("StopUnLock") =>
           /\ phase = "EngineStopped" /\ phase' = "Stopped"
           /\ distributeLockManager
    /\ Called("StopReturn") =>
           /\ phase = "EngineStopped" /\ phase' = "Stopped"
           /\ ~distributeLockManager /\ hasLock' = hasLock
    /\ phase' # phase =>
           last'.op \in {"StartTryLock", "StartAddFunc", "StartEngine", "StopEngine",
                         "StopUnLock", "StopReturn"}
    /\ ~distributeLockManager' =>
           /\ last'.err \notin {"TryLock", "TryUnLock"}
           /\ last'.op \notin {"StartTryLock", "StartAddFunc", "StopUnLock", "LockExpire"}
           /\ \A e \in entries' : e.fn.kind # "getDistributeLock"
           /\ ~hasLock'
C12_LifecycleOrdering == [][C12_LifecycleStep]_vars

\* a lock manager was set, the engine dispatched a trigger that the lock gate
\* skipped, and Stop has released the lock
C12_Witness ==
    /\ last.op = "StopUnLock" /\ last.err = "nil"
    /\ phase = "Stopped" /\ distributeLockManager /\ ~hasLock /\ skipped

\* C15: no cancellation of a run in progress.  A run that passed the lock
\* gate and entered the handler stays in progress through every step that is
\* not its own return: Pause and Remove of its job, the loss of the lock,
\* Stop's c.cr.Stop() and TryUnLock; it leaves only by the handler's return,
\* error or panic, one run at a time.
C15_RunStep ==
    /\ ~Called("Finish") =>
           \A fn \in BagToSet(inflight) : CopiesIn(fn, inflight') >= CopiesIn(fn, inflight)
    /\ Called("Finish") =>
           /\ BagIn(last'.fn, inflight)
           /\ last'.outcome \in Outcomes
           /\ \A fn \in BagToSet(inflight) :
                  CopiesIn(fn, inflight') =
                      CopiesIn(fn, inflight) - (IF fn = last'.fn THEN 1 ELSE 0)
           /\ BagToSet(inflight') \subseteq BagToSet(inflight)
C15_NoCancellation == [][C15_RunStep]_vars

\* a run returns after its job was removed, the engine was stopped and the
\* lock was released
C15_Witness ==
    /\ last.op = "Finish" /\ last.fn.kind = "jobHandler"
    /\ last.name \notin DOMAIN jobs
    /\ phase = "Stopped" /\ distributeLockManager /\ ~hasLock

\* C17: at most one handler execution per trigger.  A trigger starts no run
\* when the lock gate skips it and exactly one run of the triggered closure
\* otherwise; no other step starts a run; a run that ended, with an error or
\* a panic as well, is gone and starts again only with another trigger.
C17_TriggerRunStep ==
    /\ (Called("Trigger") /\ last'.fn.kind = "jobHandler") =>
           /\ last'.invoked = ~Skips(last'.fn, distributeLockManager, hasLock)
           /\ inflight' = IF last'.invoked THEN inflight (+) SetToBag({last'.fn})
                                            ELSE inflight
    /\ (Called("Trigger") /\ last'.fn.kind # "jobHandler") => inflight' = inflight
    /\ ~Called("Trigger") => BagCardinality(inflight') <= BagCardinality(inflight)
    /\ Called("Finish") =>
           /\ BagCardinality(inflight') = BagCardinality(inflight) - 1
           /\ CopiesIn(last'.fn, inflight') = CopiesIn(last'.fn, inflight) - 1
C17_AtMostOnce == [][C17_TriggerRunStep]_vars

\* a run ended with an error and nothing is in progress
C17_Witness ==
    /\ last.op = "Finish" /\ last.outcome = "error" /\ last.fn.kind = "jobHandler"
    /\ inflight = EmptyBag
    /\ \E e \in entries : e.fn = last.fn

\* C18: registry and engine agree.  After every call the engine's entries
\* made through the registry are exactly one per unpaused record, with the
\* record's ID, plan and closure; paused and removed jobs have none; every
\* c.cr.Remove the registry makes names an entry that is registered.
C18_ConsistentStep ==
    /\ JobEntries(entries') = Registered(jobs')
    /\ \A n \in DOMAIN jobs' :
           jobs'[n].Paused => ~\E e \in entries' : e.fn = jobs'[n].handler
    /\ \A e1, e2 \in JobEntries(entries') : e1.fn.name = e2.fn.name => e1 = e2
    /\ \A i \in DOMAIN last'.calls :
           last'.calls[i].call = "Remove" =>
               \E e \in JobEntries(entries) : e.id = last'.calls[i].id
C18_RegistryEngineConsistent == [][C18_ConsistentStep]_vars

\* a paused job was removed without a call on the engine while another job
\* is registered
C18_Witness ==
    /\ last.op = "Remove" /\ last.err = "nil" /\ last.calls = <<>>
    /\ \E n \in DOMAIN jobs : ~jobs[n].Paused

\* C13: AddAndRunOnServerReady installs the readiness hook only when Add
\* succeeded.  When Add fails, with AlreadyExists or RegistrationFailed, the
\* call returns that error, leaves the map, the engine's entries and the hooks
\* as they were; when it returns nil the job is registered and exactly one
\* closure for it is handed to the hook; nothing else installs a hook, and the
\* readiness signal calls the installed closures once and empties the list.
C13_ReadyStep ==
    /\ Called("AddAndRunOnServerReady") =>
           LET n == last'.name IN
           /\ last'.err \in {"nil", "AlreadyExists", "RegistrationFailed", "ResolveFailed"}
           /\ last'.err = "AlreadyExists" <=> n \in DOMAIN jobs
           /\ last'.err = "AlreadyExists" => last'.calls = <<>>
           /\ last'.err = "RegistrationFailed" =>
                  Len(last'.calls) = 1 /\ last'.calls[1].id = 0
           /\ last'.err \in {"AlreadyExists", "RegistrationFailed"} =>
                  /\ hooks' = hooks
                  /\ jobs' = jobs /\ entries' = entries
           /\ last'.err = "nil" =>
                  /\ Accepted
                  /\ n \in DOMAIN jobs' /\ jobs'[n].ID = last'.calls[1].id
                  /\ BagCardinality(hooks') = BagCardinality(hooks) + 1
                  /\ \E fn \in BagToSet(hooks') :
                         /\ fn.name = n
                         /\ hooks' = hooks (+) SetToBag({fn})
    /\ ~Called("AddAndRunOnServerReady") =>
           BagCardinality(hooks') <= BagCardinality(hooks)
    /\ Called("ServerReady") =>
           /\ ~ready /\ ready' /\ hooks' = EmptyBag
           /\ BagCardinality(inflight') <= BagCardinality(inflight) + BagCardinality(hooks)
    /\ (ready /\ ~Called("Trigger")) => BagCardinality(inflight') <= BagCardinality(inflight)
C13_HookOnlyAfterAdd == [][C13_ReadyStep]_vars

\* a second call for a registered name failed and left the one hook of the
\* first call
C13_Witness ==
    /\ last.op = "AddAndRunOnServerReady" /\ last.err = "AlreadyExists"
    /\ BagCardinality(hooks) = 1
    /\ \E fn \in BagToSet(hooks) : fn.name = last.name

\* C19: the readiness invocation calls the caller's handler, not the closure
\* Add registers with the engine.  Every closure handed to the hook is the
\* raw handler, and the readiness signal calls each of them whether or not a
\* lock manager is set and holds the lock, and whether or not the job still
\* has a record or is paused.
C19_ReadyRunStep ==
    /\ \A fn \in BagToSet(hooks') : fn = rawHandler(fn.name, fn.h)
    /\ Called("ServerReady") =>
           /\ \A fn \in BagToSet(hooks) :
                  CopiesIn(fn, inflight') = CopiesIn(fn, inflight) + CopiesIn(fn, hooks)
           /\ last'.invoked = (hooks # EmptyBag)
           /\ skipped' = skipped
C19_ReadyCallsRawHandler == [][C19_ReadyRunStep]_vars

\* at readiness, with a lock manager that does not hold the lock, the
\* handlers of a removed and of a paused job are running
C19_Witness ==
    /\ last.op = "ServerReady" /\ last.invoked
    /\ distributeLockManager /\ ~hasLock
    /\ \E fn \in BagToSet(inflight) : fn.kind = "raw" /\ fn.name \notin DOMAIN jobs
    /\ \E fn \in BagToSet(inflight) :
           fn.kind = "raw" /\ fn.name \in DOMAIN jobs /\ jobs[fn.name].Paused

\* C20: AddAndRunOnServerReady is not atomic on error.  When Add succeeded
\* and the hook could not be installed, the call returns an error, the record
\* and its engine entry are in place, no hook was installed, and Add or
\* AddAndRunOnServerReady with the same name now returns AlreadyExists.
C20_ResolveFailedStep ==
    (Called("AddAndRunOnServerReady") /\ last'.err = "ResolveFailed") =>
        LET n == last'.name IN
        /\ n \notin DOMAIN jobs
        /\ n \in DOMAIN jobs'
        /\ ~jobs'[n].Paused
        /\ Accepted
        /\ \E e \in entries' \ entries :
               /\ e.id = jobs'[n].ID
               /\ e.fn = jobs'[n].handler
               /\ e.fn = jobHandler(n, e.fn.h)
        /\ hooks' = hooks
        /\ \A plan \in Plans, handler \in Handlers, reject \in BOOLEAN :
               AddResult(jobs', entries', next', n, plan, handler, reject).ev.err
                   = "AlreadyExists"
C20_NotAtomicOnError == [][C20_ResolveFailedStep]_vars

\* a job registered by a call whose hook installation failed is triggered
\* by the running engine
C20_Witness ==
    /\ last.op = "Trigger" /\ last.invoked /\ last.fn.kind = "jobHandler"
    /\ last.name \in DOMAIN jobs
    /\ hooks = EmptyBag /\ ~ready

\* the lock job is registered with the running engine
LockJobRuns == phase = "Started" /\ \E e \in entries : e.fn = getDistributeLock

\* C14: the lock job is not lock-gated and its failures are not fatal.
\* Every trigger of getDistributeLock calls TryLock, also while the lock is
\* not held; a TryLock error changes neither the map nor the engine nor the
\* lifecycle, and the lock job can be triggered again; so, with the lock job
\* triggered again and again and TryLock able to succeed, the lock comes to
\* be held and every registered job comes to run.
C14_LockJobStep ==
    (Called("Trigger") /\ last'.fn = getDistributeLock) =>
        /\ distributeLockManager
        /\ last'.err \in {"nil", "TryLock"}
        /\ hasLock' = (hasLock \/ last'.err = "nil")
        /\ skipped' = skipped
        /\ RegistryUnchanged
        /\ phase' = phase /\ crashed' = crashed /\ inflight' = inflight
        /\ \E e \in entries' : e.fn = getDistributeLock
C14_LockJobNotGated ==
    /\ [][C14_LockJobStep]_vars
    /\ LockJobRuns ~> hasLock
    /\ \A name \in Names :
           (LockJobRuns /\ name \in DOMAIN jobs)
               ~> (last.op = "Trigger" /\ last.name = name /\ last.invoked)

\* a trigger of the lock job took the lock after an attempt had failed and a
\* job had been skipped for want of the lock
C14_Witness ==
    /\ last.op = "Trigger" /\ last.fn = getDistributeLock /\ last.err = "nil"
    /\ hasLock /\ skipped /\ jobs # <<>>

====
